---- MODULE Spec2Model ----
(***************************************************************************)
(* PageRank (pagerank.py): the transition model, the sampling estimator    *)
(* and the iterative estimator, as a state machine over one corpus object. *)
(*                                                                         *)
(* Pages are 1..N in the iteration order of the corpus dict.  A Python     *)
(* float x is represented by the integer x * SCALE; every division of the  *)
(* code is an integer division at that resolution (exact for the           *)
(* quotients 1/N, d/|L| and (1-d)/N of the corpora considered).  The       *)
(* damping factor is held in units of 1/DUnit.  One invocation of          *)
(* rank_pages (snapshot, loop over the pages, comparison) is one step.     *)
(*                                                                         *)
(* The corpora are those of up to MaxPages pages and MaxLinks links, and   *)
(* those of MaxPages + 1 pages in which every page has exactly one link.   *)
(***************************************************************************)
EXTENDS Integers, FiniteSets, Sequences, TLC

MaxPages == 3
MaxLinks == 3
MaxSamples == 2

SCALE == 6000000
DUnit == 20
DampingFactors == {0, 17, 20}
CONVERGENCE == SCALE \div 1000

VARIABLES corpus, damping_factor, pc, op, page, n, page_hits, current_page,
          current_n, pageranks, old_pageranks, result,
          corpus0, passes, prev

vars == <<corpus, damping_factor, pc, op, page, n, page_hits, current_page,
          current_n, pageranks, old_pageranks, result,
          corpus0, passes, prev>>

Abs(x) == IF x < 0 THEN -x ELSE x

len(c) == Cardinality(DOMAIN c)

RECURSIVE SumOver(_, _)
SumOver(f, S) ==
  IF S = {} THEN 0
  ELSE LET x == CHOOSE y \in S : TRUE IN f[x] + SumOver(f, S \ {x})

(* crawl: every page maps to a set of other pages of the corpus. *)
Links(N) == {e \in (1..N) \X (1..N) : e[1] # e[2]}

(* corpora of up to MaxPages pages with up to MaxLinks links in all *)
Sparse ==
  UNION {{[p \in 1..N |-> {q \in 1..N : <<p, q>> \in E}] :
            E \in {F \in SUBSET Links(N) : Cardinality(F) <= MaxLinks}} :
         N \in 0..MaxPages}

(* corpora of MaxPages + 1 pages, every page linking to one other page *)
SingleLink ==
  {[p \in 1..(MaxPages + 1) |-> {f[p]}] :
     f \in {g \in [1..(MaxPages + 1) -> 1..(MaxPages + 1)] :
              \A p \in 1..(MaxPages + 1) : g[p] # p}}

crawl == Sparse \cup SingleLink

(* transition_model that forgets the random jump on linked pages *)
transition_model_nojump(c, pg, d) ==
  LET outgoing_links == c[pg]
      probability_distro == [q \in DOMAIN c |-> SCALE \div len(c)]
  IN IF Cardinality(outgoing_links) = 0 THEN probability_distro
     ELSE LET damping_probability ==
                (d * SCALE) \div (DUnit * Cardinality(outgoing_links))
              random_probability == ((DUnit - d) * SCALE) \div (DUnit * len(c))
          IN [q \in DOMAIN c |->
                IF q \in outgoing_links THEN damping_probability
                ELSE random_probability]

transition_model(c, pg, d) ==
  LET outgoing_links == c[pg]
      probability_distro == [q \in DOMAIN c |-> SCALE \div len(c)]
  IN IF Cardinality(outgoing_links) = 0 THEN probability_distro
     ELSE LET damping_probability ==
                (d * SCALE) \div (DUnit * Cardinality(outgoing_links))
              random_probability == ((DUnit - d) * SCALE) \div (DUnit * len(c))
          IN [q \in DOMAIN c |->
                IF q \in outgoing_links
                THEN damping_probability + random_probability
                ELSE random_probability]

(* a hit that overwrites the counter instead of incrementing it *)
Hit_overwrite(hits, q) == [hits EXCEPT ![q] = 1]

(* page_hits[page] += 1 *)
Hit(hits, q) == [hits EXCEPT ![q] = @ + 1]

(* (1 - damping_factor) / len(corpus) + damping_factor * sum([pageranks[link] / len(corpus[link]) for link in over]) *)
Rank(c, d, r, over) ==
  ((DUnit - d) * SCALE) \div (DUnit * len(c))
  + (d * SumOver([i \in over |-> r[i] \div Cardinality(c[i])], over)) \div DUnit

(* [page_i for page_i, page_i_links in corpus.items() if page_p in page_i_links] *)
LinkingTo(c, p) == {i \in DOMAIN c : p \in c[i]}

(* a repair that links the sink to every other page only *)
Repair_others(c, p) == [c EXCEPT ![p] = DOMAIN c \ {p}]

(* corpus[page_p] = set(corpus.keys()) *)
Repair(c, p) == [c EXCEPT ![p] = DOMAIN c]

(* a comparison with the inequality the wrong way round *)
Converged_flipped(old, new) ==
  \A p \in DOMAIN new : ~(Abs(old[p] - new[p]) < CONVERGENCE)

(* the comparison loop of rank_pages *)
Converged(old, new) ==
  \A p \in DOMAIN new : ~(Abs(old[p] - new[p]) > CONVERGENCE)

(* "for page_p, links in corpus.items()" from page p on: the corpus and *)
(* the ranks when the loop ends                                         *)
RECURSIVE loop(_, _, _, _)
loop(c, d, r, p) ==
  IF p > len(c) THEN <<c, r>>
  ELSE LET links == c[p]
       IN IF Cardinality(links) > 0
          THEN loop(c, d,
                    [r EXCEPT ![p] = Rank(c, d, r, LinkingTo(c, p))], p + 1)
          ELSE LET repaired == Repair(c, p)
               IN loop(repaired, d,
                       [r EXCEPT ![p] = Rank(repaired, d, r, links)], p + 1)

Returned == pc \in {"idle", "done", "error"}

Init ==
  /\ corpus \in crawl
  /\ damping_factor \in DampingFactors
  /\ pc = "idle"
  /\ op = "none"
  /\ page = 0
  /\ n = 0
  /\ page_hits = <<>>
  /\ current_page = 0
  /\ current_n = 0
  /\ pageranks = <<>>
  /\ old_pageranks = <<>>
  /\ result = <<>>
  /\ corpus0 = corpus
  /\ passes = 0
  /\ prev = <<>>

(* a call of transition_model(corpus, page, damping_factor) *)
CallTransition ==
  /\ Returned
  /\ \E q \in DOMAIN corpus :
        /\ page' = q
        /\ result' = transition_model(corpus, q, damping_factor)
  /\ pc' = "done"
  /\ op' = "transition"
  /\ corpus0' = corpus
  /\ n' = 0 /\ page_hits' = <<>> /\ current_page' = 0 /\ current_n' = 0
  /\ pageranks' = <<>> /\ old_pageranks' = <<>>
  /\ passes' = 0 /\ prev' = <<>>
  /\ UNCHANGED <<corpus, damping_factor>>

(* sample_pagerank entry: the hit counters and the loop variables *)
CallSample ==
  /\ Returned
  /\ \E k \in 1..MaxSamples : n' = k
  /\ page_hits' = [p \in DOMAIN corpus |-> 0]
  /\ current_page' = 0
  /\ current_n' = 0
  /\ pc' = "sample"
  /\ op' = "sample"
  /\ corpus0' = corpus
  /\ result' = <<>>
  /\ page' = 0
  /\ pageranks' = <<>> /\ old_pageranks' = <<>>
  /\ passes' = 0 /\ prev' = <<>>
  /\ UNCHANGED <<corpus, damping_factor>>

(* first draw: random.choice(list(corpus)) *)
SampleFirst ==
  /\ pc = "sample" /\ current_n < n /\ current_page = 0
  /\ len(corpus) > 0
  /\ \E q \in DOMAIN corpus :
        /\ current_page' = q
        /\ page_hits' = Hit(page_hits, q)
  /\ current_n' = current_n + 1
  /\ UNCHANGED <<corpus, damping_factor, pc, op, page, n, pageranks,
                 old_pageranks, result, corpus0, passes, prev>>

(* random.choice of an empty list raises IndexError *)
SampleEmpty ==
  /\ pc = "sample" /\ current_n < n /\ current_page = 0
  /\ len(corpus) = 0
  /\ pc' = "error"
  /\ UNCHANGED <<corpus, damping_factor, op, page, n, page_hits, current_page,
                 current_n, pageranks, old_pageranks, result,
                 corpus0, passes, prev>>

(* later draws: random.choices weighted by the transition model *)
SampleNext ==
  /\ pc = "sample" /\ current_n < n /\ current_page # 0
  /\ LET model == transition_model(corpus, current_page, damping_factor)
     IN \E q \in DOMAIN model :
          /\ model[q] > 0
          /\ current_page' = q
          /\ page_hits' = Hit(page_hits, q)
  /\ current_n' = current_n + 1
  /\ UNCHANGED <<corpus, damping_factor, pc, op, page, n, pageranks,
                 old_pageranks, result, corpus0, passes, prev>>

(* return {page: hits / n ...} *)
SampleReturn ==
  /\ pc = "sample" /\ ~(current_n < n)
  /\ result' = [p \in DOMAIN page_hits |-> (page_hits[p] * SCALE) \div n]
  /\ pc' = "done"
  /\ UNCHANGED <<corpus, damping_factor, op, page, n, page_hits, current_page,
                 current_n, pageranks, old_pageranks, corpus0,
                 passes, prev>>

(* iterate_pagerank: every page starts at 1/N, then rank_pages is called *)
CallIterate ==
  /\ Returned
  /\ pageranks' = [p \in DOMAIN corpus |-> SCALE \div len(corpus)]
  /\ old_pageranks' = <<>>
  /\ passes' = 0
  /\ pc' = "rank"
  /\ op' = "iterate"
  /\ corpus0' = corpus
  /\ prev' = IF op = "iterate" /\ pc = "done" THEN <<result>> ELSE <<>>
  /\ result' = <<>>
  /\ page' = 0
  /\ n' = 0 /\ page_hits' = <<>> /\ current_page' = 0 /\ current_n' = 0
  /\ UNCHANGED <<corpus, damping_factor>>

(* the corpus and the ranks after the loop of one rank_pages invocation *)
AfterLoop == loop(corpus, damping_factor, pageranks, 1)

(* converged: return pageranks *)
RankReturn ==
  /\ pc = "rank"
  /\ \E out \in {AfterLoop} :
        /\ Converged(pageranks, out[2])
        /\ corpus' = out[1]
        /\ pageranks' = out[2]
        /\ result' = out[2]
  /\ old_pageranks' = pageranks
  /\ passes' = IF passes < 2 THEN passes + 1 ELSE passes
  /\ pc' = "done"
  /\ UNCHANGED <<damping_factor, op, page, n, page_hits, current_page,
                 current_n, corpus0, prev>>

(* not converged: rank_pages calls itself on the same corpus and ranks *)
RankAgain ==
  /\ pc = "rank"
  /\ \E out \in {AfterLoop} :
        /\ ~Converged(pageranks, out[2])
        /\ corpus' = out[1]
        /\ pageranks' = out[2]
  /\ old_pageranks' = pageranks
  /\ passes' = IF passes < 2 THEN passes + 1 ELSE passes
  /\ UNCHANGED <<damping_factor, pc, op, page, n, page_hits, current_page,
                 current_n, result, corpus0, prev>>

Next ==
  \/ CallTransition
  \/ CallSample
  \/ SampleFirst
  \/ SampleEmpty
  \/ SampleNext
  \/ SampleReturn
  \/ CallIterate
  \/ RankReturn
  \/ RankAgain

Spec == Init /\ [][Next]_vars

(* iterate_pagerank called on the corpus as crawl built it *)
IterateOnce == pc = "idle" /\ CallIterate

NextIterate == CallIterate \/ RankReturn \/ RankAgain

SpecIterate == Init /\ [][NextIterate]_vars

NextSample ==
  CallSample \/ SampleFirst \/ SampleEmpty \/ SampleNext \/ SampleReturn

SpecSample == Init /\ [][NextSample]_vars

NextTransition == CallTransition

SpecTransition == Init /\ [][NextTransition]_vars

(* One call of iterate_pagerank run to completion: the interpreter keeps *)
(* executing rank_pages and its recursive calls.                         *)
NextOnce == IterateOnce \/ RankReturn \/ RankAgain

FairIterate ==
  /\ Init /\ [][NextOnce]_vars
  /\ WF_vars(RankReturn) /\ WF_vars(RankAgain)

(***************************************************************************)
(* Claims                                                                  *)
(***************************************************************************)

(* C1: for a non-empty corpus, the vector returned by iterate_pagerank has *)
(* one value per page and its values sum to 1.0 within 1e-6.               *)
C1_IterateSumsToOne ==
  (op = "iterate" /\ pc = "done" /\ len(corpus) > 0) =>
     /\ DOMAIN result = DOMAIN corpus
     /\ Abs(SumOver(result, DOMAIN result) - SCALE) <= SCALE \div 1000000

(* C2: sample_pagerank records one hit per draw, n hits in total, never    *)
(* stops before n draws on a non-empty corpus, and returns hits/n per      *)
(* page: values in [0,1] that sum to exactly 1.                            *)
C2_SampleCountsEveryDraw ==
  (op = "sample" /\ len(corpus) > 0) =>
     /\ pc \in {"sample", "done"}
     /\ DOMAIN page_hits = DOMAIN corpus
     /\ SumOver(page_hits, DOMAIN page_hits) = current_n
     /\ current_n <= n
     /\ (current_n = 0) = (current_page = 0)
     /\ current_n > 0 => current_page \in DOMAIN corpus
                         /\ page_hits[current_page] >= 1
     /\ (pc = "sample" /\ current_n < n) =>
           ENABLED (SampleFirst \/ SampleNext)
     /\ pc = "done" =>
           /\ current_n = n
           /\ DOMAIN result = DOMAIN corpus
           /\ \A p \in DOMAIN result :
                 /\ result[p] * n = page_hits[p] * SCALE
                 /\ 0 <= result[p] /\ result[p] <= SCALE
           /\ SumOver(result, DOMAIN result) = SCALE

(* C2 witness: two draws done, the first page a sink that the walk left. *)
C2_Witness ==
  /\ op = "sample" /\ pc = "done" /\ n = 2
  /\ \E p \in DOMAIN corpus :
        corpus[p] = {} /\ page_hits[p] = 1 /\ current_page # p

(* C3: transition_model returns a value for exactly the pages of the       *)
(* corpus, summing to 1: 1/N each when the page has no outgoing links,     *)
(* otherwise (1-d)/N plus d/|L| for the pages of its outgoing set L.       *)
C3_TransitionIsDistribution ==
  (op = "transition" /\ pc = "done") =>
     LET N == len(corpus)
         L == corpus[page]
         k == Cardinality(L)
     IN /\ DOMAIN result = DOMAIN corpus
        /\ SumOver(result, DOMAIN result) = SCALE
        /\ k = 0 => \A q \in DOMAIN result : result[q] * N = SCALE
        /\ k > 0 =>
             \A q \in DOMAIN result :
                result[q] * (DUnit * N * k) =
                   SCALE * ((DUnit - damping_factor) * k
                            + (IF q \in L THEN damping_factor * N ELSE 0))

(* C3 witness: a page with links in a corpus that also has unlinked pages, *)
(* with a damping factor strictly between 0 and 1.                         *)
C3_Witness ==
  /\ op = "transition" /\ pc = "done"
  /\ damping_factor = 17
  /\ corpus[page] # {}
  /\ \E q \in DOMAIN corpus : q \notin corpus[page]

(* C4: on the single-page corpus {"a": {}} transition_model returns        *)
(* {a: 1.0} and iterate_pagerank returns {a: 1.0} after one pass.          *)
C4_SinglePage ==
  (pc = "done" /\ len(corpus0) = 1 /\ corpus0[1] = {}) =>
     /\ op = "transition" => result[1] = SCALE
     /\ op = "iterate" => result[1] = SCALE /\ passes = 1

(* C5: on an empty corpus sample_pagerank and iterate_pagerank end in an   *)
(* error; neither returns a result.                                        *)
C5_EmptyCorpusIsAnError ==
  (len(corpus) = 0 /\ op \in {"sample", "iterate"}) => pc # "done"

(* C6: in every pass the new rank of a page with outgoing links is        *)
(* (1-d)/N + d * the sum over its in-neighbours of old_rank/outdegree,     *)
(* with the ranks of the snapshot taken at the start of the pass (the      *)
(* in-neighbours taken before or after the repairs of that pass).          *)
C6_UsesSnapshot ==
  [][pc = "rank" =>
       \A p \in DOMAIN corpus :
          corpus[p] # {} =>
             \/ pageranks'[p] =
                   Rank(corpus, damping_factor, pageranks,
                        LinkingTo(corpus, p))
             \/ pageranks'[p] =
                   Rank(corpus', damping_factor, pageranks,
                        LinkingTo(corpus', p))]_vars

(* the corpus when the loop visits page p: the sinks up to p repaired *)
AtVisit(p) ==
  [q \in DOMAIN corpus |->
     IF q <= p /\ corpus[q] = {} THEN DOMAIN corpus ELSE corpus[q]]

(* C7: in the pass that visits a sink its outgoing set becomes the set of  *)
(* all pages and its new rank is (1-d)/N + d * the sum over its            *)
(* in-neighbours in the repaired corpus (the sink itself included) of      *)
(* old_rank/outdegree.                                                     *)
C7_SinkRankUsesRepair ==
  [][pc = "rank" =>
       \A p \in DOMAIN corpus :
          corpus[p] = {} =>
             /\ corpus'[p] = DOMAIN corpus
             /\ \/ pageranks'[p] =
                      Rank(AtVisit(p), damping_factor, pageranks,
                           LinkingTo(AtVisit(p), p))
                \/ pageranks'[p] =
                      Rank(corpus', damping_factor, pageranks,
                           LinkingTo(corpus', p))]_vars

(* the end of a pass: stop iff every page moved by at most 0.001 from its  *)
(* value at the start of the pass, and return the vector of that pass;     *)
(* otherwise run another pass.                                             *)
PassEnd ==
  pc = "rank" =>
     IF \A p \in DOMAIN pageranks :
           Abs(pageranks'[p] - pageranks[p]) <= SCALE \div 1000
     THEN pc' = "done" /\ result' = pageranks'
     ELSE pc' = "rank"

(* C8 as stated: for every non-empty corpus and every d in [0,1] the       *)
(* passes end as PassEnd says and a converged pass is eventually reached.  *)
C8_AlwaysTerminates ==
  /\ [][PassEnd]_vars
  /\ (pc = "rank" /\ len(corpus) > 0) ~> (pc = "done")

(* C8 amended: the passes end as PassEnd says, and for every non-empty     *)
(* corpus and every d <= 0.85 a converged pass is eventually reached.      *)
C8_TerminatesWhenDamped ==
  /\ [][PassEnd]_vars
  /\ (pc = "rank" /\ len(corpus) > 0 /\ damping_factor <= 17)
        ~> (pc = "done")

(* C8 witness: a run with d = 0.85 that needed more than one pass. *)
C8_Witness ==
  /\ op = "iterate" /\ pc = "done" /\ damping_factor = 17
  /\ passes = 2 /\ len(corpus) > 1

(* C9: the corpus changes only by the repair of its sinks, in the first    *)
(* pass of iterate_pagerank; transition_model and sample_pagerank leave it *)
(* unchanged; on return from iterate_pagerank every former sink links to   *)
(* every page and every other page keeps its links.                        *)
C9_OnlySinkRepair ==
  /\ [][corpus' # corpus =>
          /\ op = "iterate" /\ pc = "rank" /\ passes = 0
          /\ corpus' = [p \in DOMAIN corpus |->
                          IF corpus[p] = {} THEN DOMAIN corpus
                          ELSE corpus[p]]]_vars
  /\ [](pc = "done" =>
          IF op = "iterate"
          THEN /\ DOMAIN corpus = DOMAIN corpus0
               /\ \A p \in DOMAIN corpus :
                     corpus[p] = IF corpus0[p] = {} THEN DOMAIN corpus0
                                 ELSE corpus0[p]
          ELSE corpus = corpus0)

(* C9 witness: iterate_pagerank returned after several passes over a       *)
(* corpus that had a sink and a page with links.                           *)
C9_Witness ==
  /\ op = "iterate" /\ pc = "done" /\ passes = 2
  /\ \E p, q \in DOMAIN corpus0 : corpus0[p] = {} /\ corpus0[q] # {}

(* C10: iterate_pagerank called twice in a row on the same corpus returns  *)
(* the same vector both times.                                             *)
C10_SecondCallAgrees ==
  (op = "iterate" /\ pc = "done" /\ Len(prev) = 1) => result = prev[1]

====
